---- MODULE Spec2Model ----
(***************************************************************************)
(* The HTTP server of build-your-own-web-server: the dynamic buffer, the   *)
(* promise-based socket wrapper, the header framer and parser, the body    *)
(* readers, the response writer and the per-connection server loop.        *)
(*                                                                         *)
(* A byte is a one-character string, a Buffer is a sequence of bytes.      *)
(* One connection is modelled: its task runs from one await to the next,   *)
(* and the socket's events ('data', 'end', 'error', the write callback)    *)
(* fire only while the task is suspended, as on the Node.js event loop.    *)
(***************************************************************************)
EXTENDS Integers, Sequences, FiniteSets, TLC

VARIABLES
    sid,      \* which byte stream the peer sends on this connection
    pos,      \* how many bytes of it the transport has delivered
    sock,     \* net.Socket: [paused, destroyed, peer]
    conn,     \* TCPConn: [err, ended, reader]
    buf,      \* DynBuf of serveClient: [data, length]
    pc,       \* where the connection's task stands
    res,      \* the promise the task awaits: [st, val]
    req,      \* the HTTPReq being served (NoReq before the first)
    rd,       \* the request's BodyReader
    resp,     \* the HTTPRes being written
    rv,       \* the chunk the last BodyReader.read() returned
    ctx,      \* who called read(): the response writer or the drain loop
    err,      \* the error thrown to newConn's catch
    phase,    \* "serve" in serveClient, "error" in the catch's error response
    out,      \* every payload handed to socket.write, in order
    hist      \* history of the run (what the claims are stated over)

vars ==
    <<sid, pos, sock, conn, buf, pc, res, req, rd, resp, rv, ctx, err, phase,
      out, hist>>

----------------------------------------------------------------------------
(* Bytes and Buffers                                                       *)

CR == "\r"
LF == "\n"
SP == " "
Zero == "NUL"
CRLF == <<CR, LF>>

Min(a, b) == IF a < b THEN a ELSE b
Max(a, b) == IF a > b THEN a ELSE b

\* Buffer.alloc(n): n zero bytes
Alloc(n) == [i \in 1..n |-> Zero]

\* an offset of Buffer.subarray: negative counts from the end, then clamped
ClampIdx(i, len) ==
    IF i < 0 THEN Max(i + len, 0) ELSE Min(i, len)

\* Buffer.subarray(s, e): the bytes at 0-based offsets [s, e)
Slice(b, s1, e1) == IF e1 <= s1 THEN <<>> ELSE SubSeq(b, s1 + 1, e1)

subarray(b, s, e) == Slice(b, ClampIdx(s, Len(b)), ClampIdx(e, Len(b)))

\* Buffer.indexOf(needle): 0-based offset of the first occurrence, or -1
MinOrMinus1(hits) ==
    IF hits = {} THEN -1 ELSE CHOOSE i \in hits : \A j \in hits : i <= j

indexOf(hay, needle) ==
    MinOrMinus1({i \in 0..(Len(hay) - Len(needle)) :
                    \A k \in 1..Len(needle) : hay[i + k] = needle[k]})

\* src.copy(target, at): target with src written from offset at, cut at its end
CopyInto(target, src, at) ==
    [i \in 1..Len(target) |->
        IF i > at /\ i - at <= Len(src) THEN src[i - at] ELSE target[i]]

\* buf.copyWithin(0, from, to): bytes [from, to) moved to offset 0
copyWithin(data, from, to) ==
    CopyInto(data, subarray(data, from, to), 0)

RECURSIVE Flatten(_)
Flatten(ss) ==
    IF ss = <<>> THEN <<>> ELSE Head(ss) \o Flatten(Tail(ss))

----------------------------------------------------------------------------
(* Numbers in text: parseInt, Number.toString                              *)

Digits == <<"0", "1", "2", "3", "4", "5", "6", "7", "8", "9",
            "a", "b", "c", "d", "e", "f">>
UpperDigits == <<"0", "1", "2", "3", "4", "5", "6", "7", "8", "9",
                 "A", "B", "C", "D", "E", "F">>
WhiteSpace == {SP, CR, LF, "\t"}

\* the value of c as a digit of the radix, or -1
DigitVal(c, radix) ==
    MinOrMinus1({d \in 0..(radix - 1) : Digits[d + 1] = c \/ UpperDigits[d + 1] = c})

RECURSIVE SkipWhite(_)
SkipWhite(s) ==
    IF s # <<>> /\ Head(s) \in WhiteSpace THEN SkipWhite(Tail(s)) ELSE s

\* the longest prefix of s made of digits of the radix
RECURSIVE DigitPrefix(_, _)
DigitPrefix(s, radix) ==
    IF s # <<>> /\ DigitVal(Head(s), radix) >= 0
    THEN <<Head(s)>> \o DigitPrefix(Tail(s), radix)
    ELSE <<>>

RECURSIVE DigitsValue(_, _, _)
DigitsValue(s, radix, acc) ==
    IF s = <<>> THEN acc
    ELSE DigitsValue(Tail(s), radix, acc * radix + DigitVal(Head(s), radix))

\* parseInt(string) with no radix: white space, a sign, 0x for hexadecimal,
\* then the longest run of digits; NaN when there is none
parseDigits(ds, radix, neg) ==
    IF ds = <<>> THEN [nan |-> TRUE, val |-> 0]
    ELSE [nan |-> FALSE,
          val |-> IF neg THEN 0 - DigitsValue(ds, radix, 0)
                  ELSE DigitsValue(ds, radix, 0)]

parseRadix(s1, neg) ==
    IF Len(s1) >= 2 /\ s1[1] = "0" /\ s1[2] \in {"x", "X"}
    THEN parseDigits(DigitPrefix(Tail(Tail(s1)), 16), 16, neg)
    ELSE parseDigits(DigitPrefix(s1, 10), 10, neg)

parseSigned(s0) ==
    IF s0 # <<>> /\ Head(s0) \in {"-", "+"}
    THEN parseRadix(Tail(s0), Head(s0) = "-")
    ELSE parseRadix(s0, FALSE)

parseInt(str) == parseSigned(SkipWhite(str))

parseDec(decimal) == parseInt(decimal)

\* n.toString(radix) of a non-negative integer
RECURSIVE NumToString(_, _)
NumToString(n, radix) ==
    IF n < radix THEN <<Digits[n + 1]>>
    ELSE NumToString(n \div radix, radix) \o <<Digits[(n % radix) + 1]>>

----------------------------------------------------------------------------
(* DynBuf                                                                  *)

\* serveClient: const buf = { data: Buffer.alloc(0), length: 0 }
EmptyBuf == [data |-> <<>>, length |-> 0]

\* Grown allocating just what is needed
Grown_exact(data, newLen) ==
    IF Len(data) < newLen THEN CopyInto(Alloc(newLen), data, 0) ELSE data

\* bufPop that only moves the end of the window
bufPop_noMove(b, len) == [data |-> b.data, length |-> b.length - len]

\* the capacity bufPush grows to: doubled until it holds newLen
RECURSIVE GrowCap(_, _)
GrowCap(cap, newLen) ==
    IF cap < newLen THEN GrowCap(cap * 2, newLen) ELSE cap

\* data.copy(buf.data, buf.length, 0) throws ERR_OUT_OF_RANGE on a negative
\* target offset
bufPushThrows(b, data) == b.length < 0

\* buf.data once it has room for newLen bytes
Grown(data, newLen) ==
    IF Len(data) < newLen
    THEN CopyInto(Alloc(GrowCap(Max(Len(data), 32), newLen)), data, 0)
    ELSE data

bufPush(b, data) ==
    [data |-> CopyInto(Grown(b.data, b.length + Len(data)), data, b.length),
     length |-> b.length + Len(data)]

bufPop(b, len) ==
    [data |-> copyWithin(b.data, len, b.length), length |-> b.length - len]

\* buf.data.subarray(0, buf.length): the valid window
Window(b) == subarray(b.data, 0, b.length)

----------------------------------------------------------------------------
(* Header parsing                                                          *)

kMaxHeaderLen == 1024 * 8

\* what is thrown: nothing, an HTTPError(code, message), or a plain Error
NoErr == [kind |-> "none", code |-> 0, msg |-> <<>>]
HTTPError(code, message) == [kind |-> "HTTPError", code |-> code, msg |-> message]
PlainError(message) == [kind |-> "Error", code |-> 0, msg |-> message]

msgNoMethod ==
    <<"N", "o", SP, "m", "e", "t", "h", "o", "d", SP, "i", "n", SP, "r",
    "e", "q", "u", "e", "s", "t", SP, "l", "i", "n", "e">>
msgNoUri ==
    <<"N", "o", SP, "u", "r", "i", SP, "i", "n", SP, "r", "e", "q", "u",
    "e", "s", "t", SP, "l", "i", "n", "e">>
msgBadField ==
    <<"b", "a", "d", SP, "f", "i", "e", "l", "d">>
msgTooLarge ==
    <<"h", "e", "a", "d", "e", "r", SP, "i", "s", SP, "t", "o", "o", SP,
    "l", "a", "r", "g", "e">>
msgExpectedEOF ==
    <<"E", "x", "p", "e", "c", "t", "e", "d", SP, "E", "O", "F", ".">>
msgBadLength ==
    <<"b", "a", "d", SP, "C", "o", "n", "t", "e", "n", "t", "-", "L", "e",
    "n", "g", "t", "h", ".">>
msgEOFBody ==
    <<"U", "n", "e", "x", "p", "e", "c", "t", "e", "d", SP, "E", "O", "F", SP,
    "f", "r", "o", "m", SP, "H", "T", "T", "P", SP, "b", "o", "d", "y">>
msgEOFChunk ==
    <<"U", "n", "e", "x", "p", "e", "c", "t", "e", "d", SP, "E", "O", "F">>
\* the errors of the platform: the socket's, and Buffer.copy's RangeError
msgSocket ==
    <<"s", "o", "c", "k", "e", "t">>
msgOutOfRange ==
    <<"E", "R", "R", "_", "O", "U", "T", "_", "O", "F", "_", "R", "A", "N", "G", "E">>
msgNotAllowed ==
    <<"H", "T", "T", "P", SP, "b", "o", "d", "y", SP, "n", "o", "t", SP,
    "a", "l", "l", "o", "w", "e", "d", ".">>

\* the lines of data, each cut after its "\r" and before its "\n"
RECURSIVE splitLinesFrom(_, _)
RECURSIVE splitLinesAt(_, _, _)
splitLinesFrom(data, idx1) ==
    splitLinesAt(data, idx1, indexOf(subarray(data, idx1, Len(data)), CRLF))
splitLinesAt(data, idx1, idx2) ==
    IF idx2 < 0 THEN <<>>
    ELSE <<subarray(data, idx1, idx1 + idx2 + 1)>>
         \o splitLinesFrom(data, idx1 + idx2 + 2)

splitLines(data) == splitLinesFrom(data, 0)

\* [err, method, uri, version]; err is the HTTPError thrown (NoErr if none)
requestLineAt(data, methodIdx, uriIdx) ==
    IF methodIdx < 0
    THEN [err |-> HTTPError(400, msgNoMethod),
          method |-> <<>>, uri |-> <<>>, version |-> <<>>]
    ELSE IF uriIdx < 0
    THEN [err |-> HTTPError(400, msgNoUri),
          method |-> <<>>, uri |-> <<>>, version |-> <<>>]
    ELSE [err |-> NoErr,
          method |-> subarray(data, 0, methodIdx),
          uri |-> subarray(data, methodIdx + 1, methodIdx + uriIdx + 1),
          version |-> subarray(data, methodIdx + uriIdx + 2, Len(data))]

uriAt(data, methodIdx) ==
    requestLineAt(data, methodIdx,
                  IF methodIdx < 0 THEN -1
                  ELSE indexOf(subarray(data, methodIdx + 1, Len(data)), <<SP>>))

parseRequestLine(data) == uriAt(data, indexOf(data, <<SP>>))

\* validateHeader passing every line
validateHeader_any(data) == TRUE

validateHeader(data) == indexOf(data, <<":">>) >= 0

\* [err, req, lastEmpty]: err is the HTTPError thrown (NoErr if none), lastEmpty
\* is what console.assert(lines[lines.length - 1].length === 0) tests
parsedReq(rl, headers, lastLine) ==
    [err |-> IF rl.err # NoErr THEN rl.err
             ELSE IF \E i \in 1..Len(headers) : ~validateHeader(headers[i])
             THEN HTTPError(400, msgBadField)
             ELSE NoErr,
     req |-> [method |-> rl.method, uri |-> rl.uri, version |-> rl.version,
              headers |-> headers],
     lastEmpty |-> Len(lastLine) = 0]

parseLines(lines) ==
    parsedReq(parseRequestLine(lines[1]), SubSeq(lines, 2, Len(lines) - 1),
              lines[Len(lines)])

parseHTTPReq(data) == parseLines(splitLines(data))

NoReq == [method |-> <<>>, uri |-> <<>>, version |-> <<>>, headers |-> <<>>]

\* [msg, err, buf, req, lastEmpty]: msg is "null" (no complete header), "req"
\* or "throw"
cutParsed(b, idx, p) ==
    IF p.err # NoErr
    THEN [msg |-> "throw", err |-> p.err, buf |-> b, req |-> NoReq,
          lastEmpty |-> TRUE]
    ELSE [msg |-> "req", err |-> NoErr, buf |-> bufPop(b, idx + 4), req |-> p.req,
          lastEmpty |-> p.lastEmpty]

\* cutAt with the limit compared by > : a header block of exactly
\* kMaxHeaderLen bytes is let through
cutAt_gt(b, idx) ==
    IF idx < 0
    THEN IF b.length > kMaxHeaderLen
         THEN [msg |-> "throw", err |-> HTTPError(413, msgTooLarge), buf |-> b,
               req |-> NoReq, lastEmpty |-> TRUE]
         ELSE [msg |-> "null", err |-> NoErr, buf |-> b, req |-> NoReq,
               lastEmpty |-> TRUE]
    ELSE cutParsed(b, idx, parseHTTPReq(subarray(b.data, 0, idx + 4)))

cutAt(b, idx) ==
    IF idx < 0
    THEN IF b.length >= kMaxHeaderLen
         THEN [msg |-> "throw", err |-> HTTPError(413, msgTooLarge), buf |-> b,
               req |-> NoReq, lastEmpty |-> TRUE]
         ELSE [msg |-> "null", err |-> NoErr, buf |-> b, req |-> NoReq,
               lastEmpty |-> TRUE]
    ELSE cutParsed(b, idx, parseHTTPReq(subarray(b.data, 0, idx + 4)))

\* cutMessage searching a window that is one byte short
cutMessage_short(b) ==
    cutAt(b, indexOf(subarray(b.data, 0, b.length - 1), <<CR, LF, CR, LF>>))

cutMessage(b) == cutAt(b, indexOf(Window(b), <<CR, LF, CR, LF>>))

\* the value of the first header named key ("null" when there is none)
RECURSIVE fieldGet(_, _)
fieldAt(headers, key, header, idx) ==
    IF subarray(header, 0, idx) = key
    THEN [null |-> FALSE, val |-> subarray(header, idx + 2, Len(header))]
    ELSE fieldGet(Tail(headers), key)
fieldGet(headers, key) ==
    IF headers = <<>> THEN [null |-> TRUE, val |-> <<>>]
    ELSE fieldAt(headers, key, Head(headers), indexOf(Head(headers), <<":">>))

----------------------------------------------------------------------------
(* Body readers                                                            *)

mGET ==
    <<"G", "E", "T">>
mHEAD ==
    <<"H", "E", "A", "D">>
kContentLength ==
    <<"C", "o", "n", "t", "e", "n", "t", "-", "L", "e", "n", "g", "t", "h">>
kTransferEncoding ==
    <<"T", "r", "a", "n", "s", "f", "e", "r", "-", "E", "n", "c", "o", "d",
    "i", "n", "g">>
tChunked ==
    <<"c", "h", "u", "n", "k", "e", "d">>

\* the state of a readChunks generator: not started, suspended at its yield,
\* suspended in bufExpectMore, or finished
GenIdle == [st |-> "start", remain |-> 0, last |-> FALSE]

\* a BodyReader: length is the declared length, remain the count left of a
\* fixed-length reader, gen the generator of a chunked one
NoReader == [kind |-> "none", length |-> 0, remain |-> 0, gen |-> GenIdle]
readerFromConnLength(remain) ==
    [kind |-> "length", length |-> remain, remain |-> remain, gen |-> GenIdle]
readerFromConnEOF ==
    [kind |-> "eof", length |-> 0, remain |-> 0, gen |-> GenIdle]
readerFromGenerator ==
    [kind |-> "gen", length |-> -1, remain |-> 0, gen |-> GenIdle]

\* [err, rd]: the reader of the request's body, or the HTTPError thrown
\* readerFor without the check of the method
readerFor_lenient(bodyLen, bodyAllowed, chunked) ==
    IF ~bodyAllowed
    THEN [err |-> NoErr, rd |-> readerFromConnLength(0)]
    ELSE IF bodyLen >= 0
    THEN [err |-> NoErr, rd |-> readerFromConnLength(bodyLen)]
    ELSE IF chunked
    THEN [err |-> NoErr, rd |-> readerFromGenerator]
    ELSE [err |-> NoErr, rd |-> readerFromConnEOF]

readerFor(bodyLen, bodyAllowed, chunked) ==
    IF ~bodyAllowed /\ (bodyLen > 0 \/ chunked)
    THEN [err |-> HTTPError(400, msgNotAllowed), rd |-> NoReader]
    ELSE IF ~bodyAllowed
    THEN [err |-> NoErr, rd |-> readerFromConnLength(0)]
    ELSE IF bodyLen >= 0
    THEN [err |-> NoErr, rd |-> readerFromConnLength(bodyLen)]
    ELSE IF chunked
    THEN [err |-> NoErr, rd |-> readerFromGenerator]
    ELSE [err |-> NoErr, rd |-> readerFromConnEOF]

readerWith(r, contentLen, bodyLen, te) ==
    IF ~contentLen.null /\ bodyLen.nan
    THEN [err |-> HTTPError(400, msgBadLength), rd |-> NoReader]
    ELSE readerFor(IF contentLen.null THEN -1 ELSE bodyLen.val,
                   ~(r.method = mGET \/ r.method = mHEAD),
                   ~te.null /\ te.val = tChunked)

lengthOf(r, contentLen) ==
    readerWith(r, contentLen, parseDec(contentLen.val),
               fieldGet(r.headers, kTransferEncoding))

readerFromReq(r) == lengthOf(r, fieldGet(r.headers, kContentLength))

\* the fixed-length reader's last lines: consume min(buf.length, remain)
\* bytes; [buf, remain, data]
\* consumeLength taking all that is buffered
consumeLength_all(b, remain) ==
    [buf |-> bufPop(b, b.length),
     remain |-> remain - Min(b.length, remain),
     data |-> subarray(b.data, 0, b.length)]

\* consumeLength popping all that remains of the body, buffered or not
consumeLength_remain(b, remain) ==
    [buf |-> bufPop(b, remain),
     remain |-> remain - Min(b.length, remain),
     data |-> subarray(b.data, 0, Min(b.length, remain))]

consumeLength(b, remain) ==
    [buf |-> bufPop(b, Min(b.length, remain)),
     remain |-> remain - Min(b.length, remain),
     data |-> subarray(b.data, 0, Min(b.length, remain))]

\* one turn of readChunks from the top of its outer loop (mode "top": find
\* and pop the size line) or from the test of its inner loop (mode "inner"),
\* to where it next stops: [ev, buf, gen, data] with ev "yield" (data is the
\* chunk), "await" (bufExpectMore is to read), "done" (the generator
\* returns), "spin" (no size line is buffered: the loop continues without
\* awaiting anything, for ever), or "top"/"inner" (go on in that mode)
genSized(b, n) ==
    [ev |-> "inner", buf |-> b, data |-> <<>>,
     gen |-> [st |-> "run", remain |-> IF n.nan THEN 0 ELSE n.val,
              last |-> ~n.nan /\ n.val = 0]]

genLine(b, idx) ==
    IF idx < 0
    THEN [ev |-> "spin", buf |-> b, data |-> <<>>, gen |-> GenIdle]
    ELSE genSized(bufPop(b, idx + 2), parseDec(subarray(b.data, 0, idx)))

genTop(b) == genLine(b, indexOf(Window(b), CRLF))

genInner(b, remain, last) ==
    IF remain > 0
    THEN IF b.length = 0
         THEN [ev |-> "await", buf |-> b, data |-> <<>>,
               gen |-> [st |-> "await", remain |-> remain, last |-> last]]
         ELSE [ev |-> "yield", buf |-> bufPop(b, Min(remain, b.length)),
               data |-> subarray(b.data, 0, Min(remain, b.length)),
               gen |-> [st |-> "yield", remain |-> remain - Min(remain, b.length),
                        last |-> last]]
    ELSE IF last
         THEN [ev |-> "done", buf |-> bufPop(b, 2), data |-> <<>>,
               gen |-> [st |-> "done", remain |-> 0, last |-> TRUE]]
         ELSE [ev |-> "top", buf |-> bufPop(b, 2), data |-> <<>>, gen |-> GenIdle]

\* readChunks run until it yields, awaits, returns or spins
RECURSIVE genRun(_)
genRun(g) ==
    CASE g.ev = "top" -> genRun(genTop(g.buf))
      [] g.ev = "inner" -> genRun(genInner(g.buf, g.gen.remain, g.gen.last))
      [] OTHER -> g

\* gen.next() on a generator suspended in state gen
genNext(b, gen) ==
    genRun([ev |-> IF gen.st = "start" THEN "top" ELSE "inner", buf |-> b,
            data |-> <<>>, gen |-> gen])

----------------------------------------------------------------------------
(* Responses                                                               *)

uEcho ==
    <<"/", "e", "c", "h", "o">>
uSheep ==
    <<"/", "s", "h", "e", "e", "p">>
hServer ==
    <<"S", "e", "r", "v", "e", "r", ":", SP, "m", "y", "_", "f", "i", "r",
    "s", "t", "_", "h", "t", "t", "p", "_", "s", "e", "r", "v", "e", "r">>
tHelloWorld ==
    <<"h", "e", "l", "l", "o", SP, "w", "o", "r", "l", "d", ".", LF>>
tStatusHTTP ==
    <<"H", "T", "T", "P", "/", "1", ".", "1", SP>>
tOK ==
    <<"O", "K">>
tBadRequest ==
    <<"B", "a", "d", SP, "R", "e", "q", "u", "e", "s", "t">>
tTooLarge ==
    <<"R", "e", "q", "u", "e", "s", "t", SP, "E", "n", "t", "i", "t", "y",
    SP, "T", "o", "o", SP, "L", "a", "r", "g", "e">>
tNotImplemented ==
    <<"N", "o", "t", SP, "I", "m", "p", "l", "e", "m", "e", "n", "t", "e", "d">>
hTransferChunked ==
    kTransferEncoding \o <<":", SP>> \o tChunked
tVer10 ==
    <<"1", ".", "0">>

\* an HTTPRes with its body reader: body is "req" (the request's reader),
\* "mem" (readerFromMemory(data), done once read), "sheep" (countSheep, i
\* sheep counted) or "none"; last is writeHTTPResp's loop flag
NoResp ==
    [code |-> 0, headers |-> <<>>, body |-> "none", length |-> 0,
     data |-> <<>>, done |-> FALSE, i |-> 0, last |-> FALSE]
readerFromMemory(code, headers, data) ==
    [code |-> code, headers |-> headers, body |-> "mem", length |-> Len(data),
     data |-> data, done |-> FALSE, i |-> 0, last |-> FALSE]

\* the response to a request whose body reader is reqBody
handleReq(r, reqBody) ==
    IF r.uri = uEcho
    THEN [NoResp EXCEPT !.code = 200, !.headers = <<hServer>>, !.body = "req",
                        !.length = reqBody.length]
    ELSE IF r.uri = uSheep
    THEN [NoResp EXCEPT !.code = 200, !.headers = <<hServer>>, !.body = "sheep",
                        !.length = -1]
    ELSE readerFromMemory(200, <<hServer>>, tHelloWorld)

\* newConn's catch: the response to an HTTPError
errorResp(e) == readerFromMemory(e.code, <<>>, e.msg \o <<LF>>)

\* the header writeHTTPResp adds
lengthHeader(length) ==
    IF length < 0 THEN hTransferChunked
    ELSE kContentLength \o <<":", SP>> \o NumToString(length, 10)

knownCode(code) == code \in {200, 400, 413, 501}

reasonOf(code) ==
    CASE code = 200 -> tOK
      [] code = 400 -> tBadRequest
      [] code = 413 -> tTooLarge
      [] code = 501 -> tNotImplemented
      [] OTHER -> <<>>

RECURSIVE headerLines(_)
headerLines(headers) ==
    IF headers = <<>> THEN <<>>
    ELSE Head(headers) \o CRLF \o headerLines(Tail(headers))

\* the status line and the header fields of a response of a known code
encodeHTTPResp(code, headers) ==
    tStatusHTTP \o NumToString(code, 10) \o <<SP>> \o reasonOf(code) \o CRLF
    \o headerLines(headers) \o CRLF

\* bodyPayload framing only the chunks that are not empty
bodyPayload_bare(length, data) ==
    IF length < 0 /\ Len(data) > 0
    THEN NumToString(Len(data), 16) \o CRLF \o data \o CRLF
    ELSE data

\* what writeHTTPResp writes for a chunk its body returned
bodyPayload(length, data) ==
    IF length < 0
    THEN NumToString(Len(data), 16) \o CRLF \o data \o CRLF
    ELSE data

----------------------------------------------------------------------------
(* The byte streams a peer sends                                           *)

mPOST ==
    <<"P", "O", "S", "T">>
uRoot ==
    <<"/">>
vHTTP10 ==
    <<"H", "T", "T", "P", "/", "1", ".", "0">>
vHTTP11 ==
    <<"H", "T", "T", "P", "/", "1", ".", "1">>
tHello ==
    <<"h", "e", "l", "l", "o">>

\* a header block: request line, header fields, blank line
Block(method, uri, version, headers) ==
    method \o <<SP>> \o uri \o <<SP>> \o version \o CRLF
    \o headerLines(headers) \o CRLF

hLength(digits) == kContentLength \o <<":", SP>> \o digits

\* the most chunks of one response's body that are written
MaxChunks == 6

\* the history stops adding to got once it holds this many bytes
MaxGot == 8

\* a stream is its bytes and the offsets at which a delivery may end: any
\* offset (AnyCut), or the offsets next to the marked ones and the end
AnyCut(bytes) == [bytes |-> bytes, cuts |-> 1..Len(bytes)]
CutNear(bytes, marks) ==
    [bytes |-> bytes,
     cuts |-> {c \in 1..Len(bytes) :
                 c = Len(bytes) \/ \E m \in marks : c \in (m - 2)..(m + 1)}]

bGet10 == Block(mGET, uRoot, vHTTP10, <<>>)
bGet11 == Block(mGET, uRoot, vHTTP11, <<>>)
bHead11 == Block(mHEAD, uRoot, vHTTP11, <<>>)
bGetEcho == Block(mGET, uEcho, vHTTP11, <<>>)
bPostEcho5 == Block(mPOST, uEcho, vHTTP11, <<hLength(<<"5">>)>>)
bPostRoot5 == Block(mPOST, uRoot, vHTTP11, <<hLength(<<"5">>)>>)
bGetEcho5 == Block(mGET, uEcho, vHTTP11, <<hLength(<<"5">>)>>)
bHeadRoot5 == Block(mHEAD, uRoot, vHTTP10, <<hLength(<<"5">>)>>)
bPostEchoChunked == Block(mPOST, uEcho, vHTTP11, <<hTransferChunked>>)
bGetChunked == Block(mGET, uRoot, vHTTP11, <<hServer, hTransferChunked>>)
bPostLengthX == Block(mPOST, uRoot, vHTTP11, <<hLength(<<"x">>)>>)
bNoColon == Block(mGET, uRoot, vHTTP11, <<tChunked>>)
bPostRoot0 == Block(mPOST, uRoot, vHTTP11, <<hLength(<<"0">>)>>)
bPostRoot == Block(mPOST, uRoot, vHTTP11, <<>>)
bPostEcho == Block(mPOST, uEcho, vHTTP11, <<>>)
bPostLength5x == Block(mPOST, uRoot, vHTTP11, <<hLength(<<"5", "x">>)>>)
bPostLengthNeg == Block(mPOST, uRoot, vHTTP11, <<hLength(<<"-", "5">>)>>)
\* a request of kMaxHeaderLen + 2 bytes: its last CR LF lies past the limit
bGetLong ==
    Block(mGET, uRoot, vHTTP11,
          <<[i \in 1..(kMaxHeaderLen - 18) |-> IF i = 2 THEN ":" ELSE "a"]>>)
bGetSheep == Block(mGET, uSheep, vHTTP11, <<>>)
tChunkHello == <<"5">> \o CRLF \o tHello \o CRLF \o <<"0">> \o CRLF \o CRLF

Streams ==
    << \* two HTTP/1.0 requests, pipelined
       CutNear(bGet10 \o bGet10, {Len(bGet10)}),
       \* an HTTP/1.1 request, then a request for /echo without a body
       CutNear(bGet11 \o bGetEcho, {Len(bGet11)}),
       \* a body that is echoed, then another request: cut anywhere
       AnyCut(bPostEcho5 \o tHello \o bGet11),
       \* a body the handler leaves unread, then another request
       CutNear(bPostRoot5 \o tHello \o bHead11,
               {Len(bPostRoot5), Len(bPostRoot5) + 3, Len(bPostRoot5) + 5}),
       \* a body of no bytes, then another request
       CutNear(bPostRoot0 \o bGet11, {Len(bPostRoot0)}),
       \* GET and HEAD with a body
       CutNear(bGetEcho5 \o tHello, {Len(bGetEcho5)}),
       CutNear(bHeadRoot5 \o tHello, {Len(bHeadRoot5)}),
       \* a body without a length that the handler leaves unread
       CutNear(bPostRoot \o tHello, {Len(bPostRoot)}),
       \* Transfer-Encoding: chunked, on a POST and on a GET
       CutNear(bPostEchoChunked \o tChunkHello, {Len(bPostEchoChunked)}),
       CutNear(bGetChunked \o bGet11, {Len(bGetChunked)}),
       \* a request line without its spaces, a header field without its colon,
       \* a Content-Length that is no number
       CutNear(mGET \o CRLF \o CRLF \o mGET \o <<SP>> \o uRoot \o CRLF \o CRLF, {7}),
       CutNear(bNoColon, {Len(bNoColon)}),
       CutNear(bPostLengthX \o tHello, {Len(bPostLengthX)}),
       \* kMaxHeaderLen + 1 bytes without a blank line
       CutNear([i \in 1..(kMaxHeaderLen + 1) |-> IF i = kMaxHeaderLen THEN CR ELSE "a"],
               {kMaxHeaderLen}),
       CutNear(bGetLong, {kMaxHeaderLen}),
       \* the timed stream
       CutNear(bGetSheep, {Len(bGetSheep)}),
       \* a body without a length that is echoed
       CutNear(bPostEcho \o tHello, {Len(bPostEcho)}),
       \* a request line with one space
       CutNear(mGET \o <<SP>> \o uRoot \o CRLF \o CRLF, {7}),
       \* a Content-Length of digits and a letter, and a negative one
       CutNear(bPostLength5x \o tHello, {Len(bPostLength5x)}),
       CutNear(bPostLengthNeg \o tHello, {Len(bPostLengthNeg)})
    >>

\* a chunked body: the segments, each behind its size line, and the last chunk
RECURSIVE Segments(_)
Segments(payloads) ==
    IF payloads = <<>> THEN <<"0">> \o CRLF \o CRLF
    ELSE <<Digits[Len(Head(payloads)) + 1]>> \o CRLF \o Head(payloads) \o CRLF
         \o Segments(Tail(payloads))

Chunked(payloads) ==
    [bytes |-> Segments(payloads), cuts |-> 1..Len(Segments(payloads)),
     payload |-> Flatten(payloads)]

\* the bodies a body reader is run on by itself
Bodies ==
    << Chunked(<<tHello>>),
       Chunked(<<SubSeq(tHello, 1, 2), SubSeq(tHello, 3, 5)>>),
       \* a segment of ten bytes: its size line is "a"
       Chunked(<<tHello \o tHello>>) >>

tQuit == <<"q", "u", "i", "t", LF>>

\* what a peer of the echo server sends: lines, an empty line, bytes after the
\* last LF; a 'quit' between lines
Lines ==
    << AnyCut(<<"a", "b", LF, LF, "c", "d", LF, "x">>),
       AnyCut(<<"a", LF>> \o tQuit \o <<"b", LF>>) >>

\* all that a peer may send: sid is an index of Feed
Feed ==
    Streams
    \o [i \in 1..Len(Bodies) |-> [bytes |-> Bodies[i].bytes, cuts |-> Bodies[i].cuts]]
    \o Lines

Stream == Feed[sid].bytes

----------------------------------------------------------------------------
(* The socket wrapper: soInit, soRead, soWrite                             *)

Idle == [st |-> "idle", op |-> "none", val |-> <<>>]
Pending(op) == [st |-> "pending", op |-> op, val |-> <<>>]
Resolved(val) == [st |-> "ok", op |-> "none", val |-> val]
Rejected == [st |-> "err", op |-> "none", val |-> <<>>]

\* soRead(conn): [conn, sock, res]
soRead(c, s) ==
    IF c.err THEN [conn |-> c, sock |-> s, res |-> Rejected]
    ELSE IF c.ended THEN [conn |-> c, sock |-> s, res |-> Resolved(<<>>)]
    ELSE [conn |-> [c EXCEPT !.reader = TRUE],
          sock |-> [s EXCEPT !.paused = FALSE],
          res |-> Pending("read")]

\* soWrite(conn, data): [res, out]
soWrite(c, o, data) ==
    IF c.err THEN [res |-> Rejected, out |-> o]
    ELSE [res |-> Pending("write"), out |-> Append(o, data)]

\* the task is suspended on a promise nothing has settled yet
Suspended == res.st = "pending"

\* the 'data' handler without its socket.pause()
OnData_noPause ==
    /\ Suspended
    /\ ~sock.paused /\ ~sock.destroyed /\ sock.peer = "open"
    /\ \E c \in Feed[sid].cuts :
        /\ c > pos
        /\ pos' = c
        /\ res' = IF conn.reader THEN Resolved(SubSeq(Stream, pos + 1, c)) ELSE res
    /\ conn' = [conn EXCEPT !.reader = FALSE]
    /\ hist' = [hist EXCEPT !.nullReader = @ \/ ~conn.reader]
    /\ UNCHANGED <<sid, sock, buf, pc, req, rd, resp, rv, ctx, err, phase, out>>

\* socket.on('data'): one delivery, up to any offset the stream may be cut at
OnData ==
    /\ Suspended
    /\ ~sock.paused /\ ~sock.destroyed /\ sock.peer = "open"
    /\ \E c \in Feed[sid].cuts :
        /\ c > pos
        /\ pos' = c
        /\ res' = IF conn.reader THEN Resolved(SubSeq(Stream, pos + 1, c)) ELSE res
    /\ sock' = [sock EXCEPT !.paused = TRUE]
    /\ conn' = [conn EXCEPT !.reader = FALSE]
    /\ hist' = [hist EXCEPT !.nullReader = @ \/ ~conn.reader]
    /\ UNCHANGED <<sid, buf, pc, req, rd, resp, rv, ctx, err, phase, out>>

\* socket.on('end'): the peer has sent all it will send
OnEnd ==
    /\ Suspended
    /\ ~sock.paused /\ ~sock.destroyed /\ sock.peer = "open"
    /\ sock' = [sock EXCEPT !.peer = "ended"]
    /\ conn' = [conn EXCEPT !.ended = TRUE, !.reader = FALSE]
    /\ res' = IF conn.reader THEN Resolved(<<>>) ELSE res
    /\ UNCHANGED <<sid, pos, buf, pc, req, rd, resp, rv, ctx, err, phase, out, hist>>

\* socket.on('error')
OnError ==
    /\ Suspended
    /\ ~sock.destroyed /\ sock.peer # "error"
    /\ sock' = [sock EXCEPT !.peer = "error"]
    /\ conn' = [conn EXCEPT !.err = TRUE, !.reader = FALSE]
    /\ res' = IF conn.reader THEN Rejected ELSE res
    /\ UNCHANGED <<sid, pos, buf, pc, req, rd, resp, rv, ctx, err, phase, out, hist>>

\* the callback of socket.write, without an error
WriteDone ==
    /\ Suspended /\ res.op = "write"
    /\ sock.peer # "error"
    /\ res' = Resolved(<<>>)
    /\ UNCHANGED <<sid, pos, sock, conn, buf, pc, req, rd, resp, rv, ctx, err,
                   phase, out, hist>>

\* the callback of socket.write, with an error
WriteFail ==
    /\ Suspended /\ res.op = "write"
    /\ res' = Rejected
    /\ UNCHANGED <<sid, pos, sock, conn, buf, pc, req, rd, resp, rv, ctx, err,
                   phase, out, hist>>

\* countSheep's setTimeout
TimerFire ==
    /\ Suspended /\ res.op = "timer"
    /\ res' = Resolved(<<>>)
    /\ UNCHANGED <<sid, pos, sock, conn, buf, pc, req, rd, resp, rv, ctx, err,
                   phase, out, hist>>

----------------------------------------------------------------------------
(* The connection's task: newConn, serveClient, writeHTTPResp, the readers *)

HasHeader(b) == indexOf(Window(b), <<CR, LF, CR, LF>>) >= 0

\* throw e, with the error response inside the try it reports for: its
\* failure is caught like any other
Raise_again(e) ==
    /\ pc' = "catch"
    /\ err' = IF phase = "serve" THEN e ELSE err
    /\ hist' = IF phase = "serve" THEN [hist EXCEPT !.failOut = Len(out)] ELSE hist

\* throw e: to newConn's catch from serveClient, to the inner catch (which
\* ignores it) from the error response
Raise(e) ==
    /\ pc' = IF phase = "serve" THEN "catch" ELSE "finally"
    /\ err' = IF phase = "serve" THEN e ELSE err
    /\ hist' = IF phase = "serve" THEN [hist EXCEPT !.failOut = Len(out)] ELSE hist

\* writeHTTPResp up to its first await: [ok, resp, res, out]; ok is FALSE
\* where encodeHTTPResp throws
writeEncoded(r1, w) ==
    IF knownCode(r1.code)
    THEN [ok |-> TRUE, resp |-> r1, res |-> w.res, out |-> w.out]
    ELSE [ok |-> FALSE, resp |-> r1, res |-> Idle, out |-> w.old]

writeHeader(r1, c, o) ==
    writeEncoded(r1, [old |-> o] @@ soWrite(c, o, encodeHTTPResp(r1.code, r1.headers)))

writeStart(r0, c, o) ==
    writeHeader([r0 EXCEPT !.headers = Append(@, lengthHeader(r0.length))], c, o)

\* serveClient: the top of the loop, to the await of soRead or to the request
ServeCut(m, r) ==
    /\ CASE m.msg = "throw" ->
              /\ Raise(m.err)
              /\ UNCHANGED <<buf, req, conn, sock, res>>
         [] m.msg = "null" ->
              /\ pc' = "await_hdr"
              /\ conn' = r.conn /\ sock' = r.sock /\ res' = r.res
              /\ hist' = [hist EXCEPT !.readSince = TRUE]
              /\ UNCHANGED <<buf, req, err>>
         [] m.msg = "req" ->
              /\ pc' = "request"
              /\ buf' = m.buf /\ req' = m.req
              /\ hist' = [hist EXCEPT
                     !.raw = subarray(buf.data, 0, buf.length - m.buf.length),
                     !.bodyStart = pos - m.buf.length,
                     !.got = <<>>,
                     !.lastEmpty = @ /\ m.lastEmpty,
                     !.nReq = @ + 1]
              /\ UNCHANGED <<conn, sock, res, err>>
    /\ UNCHANGED <<sid, pos, rd, resp, rv, ctx, phase, out>>

ServeLoop ==
    /\ pc = "loop"
    /\ ServeCut(cutMessage(buf), soRead(conn, sock))

\* serveClient: after await soRead(conn)
\* ServeRead with the echo server's end of input: any EOF is a return
ServeRead_echo ==
    /\ pc = "await_hdr" /\ res.st \in {"ok", "err"}
    /\ res' = Idle
    /\ IF res.st = "err" \/ bufPushThrows(buf, res.val)
       THEN /\ Raise(PlainError(IF res.st = "err" THEN msgSocket ELSE msgOutOfRange))
            /\ UNCHANGED buf
       ELSE /\ buf' = bufPush(buf, res.val)
            /\ IF Len(res.val) = 0
               THEN pc' = "finally" /\ UNCHANGED <<err, hist>>
               ELSE pc' = "loop" /\ UNCHANGED <<err, hist>>
    /\ UNCHANGED <<sid, pos, sock, conn, req, rd, resp, rv, ctx, phase, out>>

ServeRead ==
    /\ pc = "await_hdr" /\ res.st \in {"ok", "err"}
    /\ res' = Idle
    /\ IF res.st = "err" \/ bufPushThrows(buf, res.val)
       THEN /\ Raise(PlainError(IF res.st = "err" THEN msgSocket ELSE msgOutOfRange))
            /\ UNCHANGED buf
       ELSE /\ buf' = bufPush(buf, res.val)
            /\ IF Len(res.val) = 0 /\ buf.length = 0
               THEN pc' = "finally" /\ UNCHANGED <<err, hist>>
               ELSE IF Len(res.val) = 0
               THEN Raise(HTTPError(400, msgExpectedEOF))
               ELSE pc' = "loop" /\ UNCHANGED <<err, hist>>
    /\ UNCHANGED <<sid, pos, sock, conn, req, rd, resp, rv, ctx, phase, out>>

\* serveClient: readerFromReq, handleReq, and writeHTTPResp to its first await
ServeWrite(r, w) ==
    IF r.err # NoErr
    THEN Raise(r.err) /\ UNCHANGED <<rd, resp, res, out>>
    ELSE /\ rd' = r.rd /\ resp' = w.resp /\ res' = w.res /\ out' = w.out
         /\ pc' = "await_w"
         /\ hist' = [hist EXCEPT !.heads = IF w.out # out THEN Append(@, 200) ELSE @,
                                 !.chunks = 0]
         /\ UNCHANGED err

ServeReader(r) == ServeWrite(r, writeStart(handleReq(req, r.rd), conn, out))

ServeRequest ==
    /\ pc = "request"
    /\ ServeReader(readerFromReq(req))
    /\ UNCHANGED <<sid, pos, sock, conn, buf, req, rv, ctx, phase>>

\* writeHTTPResp: after await soWrite, back to the test of its loop
WriteResume ==
    /\ pc = "await_w" /\ res.st \in {"ok", "err"}
    /\ res' = Idle
    /\ IF res.st = "err"
       THEN Raise(PlainError(msgSocket)) /\ UNCHANGED ctx
       ELSE /\ pc' = IF resp.last THEN "written" ELSE "read"
            /\ ctx' = IF resp.last THEN ctx ELSE "write"
            /\ UNCHANGED <<err, hist>>
    /\ UNCHANGED <<sid, pos, sock, conn, buf, req, rd, resp, rv, phase, out>>

\* the reader that read() is called on
Reading == IF ctx = "write" THEN resp.body ELSE "req"

\* a step of read(): next is "ret" (it returns rv), "await" (it awaits io),
\* "spin" or "throw"
Step(next, io, b, r, rs, data) ==
    [next |-> next, io |-> io, buf |-> b, rd |-> r, resp |-> rs, rv |-> data]

\* read() throws Error(message)
Throws(message, b, r, rs) == Step("throw", "none", b, r, rs, message)

\* read() of the fixed-length reader, once the buffer is not empty
lengthTake(r, rs, c) == Step("ret", "none", c.buf, [r EXCEPT !.remain = c.remain], rs, c.data)

\* read() of the chunked reader, once the generator has stopped at g
genTake(r, rs, g) ==
    Step(CASE g.ev \in {"yield", "done"} -> "ret" [] g.ev = "await" -> "await"
           [] OTHER -> "spin",
         IF g.ev = "await" THEN "read" ELSE "none",
         g.buf, [r EXCEPT !.gen = g.gen], rs, g.data)

\* BodyReader.read() from its call to its first await or its return
readCall(which, b, r, rs) ==
    CASE which = "mem" ->
           IF rs.done THEN Step("ret", "none", b, r, rs, <<>>)
           ELSE Step("ret", "none", b, r, [rs EXCEPT !.done = TRUE], rs.data)
      [] which = "sheep" ->
           IF rs.i < 100 THEN Step("await", "timer", b, r, rs, <<>>)
           ELSE Step("ret", "none", b, r, rs, <<>>)
      [] which = "req" /\ r.kind = "length" ->
           IF r.remain = 0 THEN Step("ret", "none", b, r, rs, <<>>)
           ELSE IF b.length = 0 THEN Step("await", "read", b, r, rs, <<>>)
           ELSE lengthTake(r, rs, consumeLength(b, r.remain))
      [] which = "req" /\ r.kind = "eof" -> Step("await", "read", b, r, rs, <<>>)
      [] which = "req" /\ r.kind = "gen" ->
           IF r.gen.st = "done" THEN Step("ret", "none", b, r, rs, <<>>)
           ELSE genTake(r, rs, genNext(b, r.gen))
      [] OTHER -> Step("ret", "none", b, r, rs, <<>>)

\* the bytes of the request's body that read() has returned so far
Got(which, data) ==
    IF which = "req" /\ Len(hist.got) < MaxGot THEN hist.got \o data ELSE hist.got

ReadCalled(s, r) ==
    /\ buf' = s.buf /\ rd' = s.rd /\ resp' = s.resp /\ rv' = s.rv
    /\ pc' = CASE s.next = "ret" -> "ret" [] s.next = "await" -> "await_rd"
               [] OTHER -> "spin"
    /\ conn' = IF s.io = "read" THEN r.conn ELSE conn
    /\ sock' = IF s.io = "read" THEN r.sock ELSE sock
    /\ res' = CASE s.io = "read" -> r.res [] s.io = "timer" -> Pending("timer")
                [] OTHER -> res
    /\ hist' = [hist EXCEPT !.readSince = @ \/ s.io = "read",
                            !.got = Got(Reading, s.rv)]

ReadCall ==
    /\ pc = "read"
    /\ ReadCalled(readCall(Reading, buf, rd, resp), soRead(conn, sock))
    /\ UNCHANGED <<sid, pos, req, ctx, err, phase, out>>

\* readPushed taking the end of input for the end of a fixed-length body
readPushed_eofEnds(which, b1, r, rs, data) ==
    CASE which = "req" /\ r.kind = "length" ->
           IF Len(data) = 0 THEN Step("ret", "none", b1, r, rs, <<>>)
           ELSE lengthTake(r, rs, consumeLength(b1, r.remain))
      [] which = "req" /\ r.kind = "eof" ->
           IF Len(data) # 0 THEN Step("await", "read", b1, r, rs, <<>>)
           ELSE Step("ret", "none", b1, r, rs, b1.data)
      [] which = "req" /\ r.kind = "gen" ->
           genTake(r, rs, genNext(b1, r.gen))
      [] OTHER -> Step("ret", "none", b1, r, rs, <<>>)

\* read() after its await, the buffer being b1 once the data is pushed
readPushed(which, b1, r, rs, data) ==
    CASE which = "req" /\ r.kind = "length" ->
           IF Len(data) = 0 THEN Throws(msgEOFBody, b1, r, rs)
           ELSE lengthTake(r, rs, consumeLength(b1, r.remain))
      [] which = "req" /\ r.kind = "eof" ->
           IF Len(data) # 0 THEN Step("await", "read", b1, r, rs, <<>>)
           ELSE Step("ret", "none", b1, r, rs, b1.data)
      [] which = "req" /\ r.kind = "gen" ->
           genTake(r, rs, genNext(b1, r.gen))
      [] OTHER -> Step("ret", "none", b1, r, rs, <<>>)

\* BodyReader.read() after its await
readResume(which, b, r, rs, result) ==
    IF which = "sheep"
    THEN Step("ret", "none", b, r, [rs EXCEPT !.i = @ + 1],
              NumToString(rs.i, 10) \o <<LF>>)
    ELSE IF result.st = "err" THEN Throws(msgSocket, b, r, rs)
    ELSE IF r.kind = "gen" /\ Len(result.val) = 0 THEN Throws(msgEOFChunk, b, r, rs)
    ELSE IF bufPushThrows(b, result.val) THEN Throws(msgOutOfRange, b, r, rs)
    ELSE readPushed(which, bufPush(b, result.val), r, rs, result.val)

ReadResumed(s, r) ==
    /\ buf' = s.buf /\ rd' = s.rd /\ resp' = s.resp
    /\ rv' = IF s.next = "throw" THEN rv ELSE s.rv
    /\ conn' = IF s.next = "await" THEN r.conn ELSE conn
    /\ sock' = IF s.next = "await" THEN r.sock ELSE sock
    /\ res' = IF s.next = "await" THEN r.res ELSE Idle
    /\ IF s.next = "throw"
       THEN Raise(PlainError(s.rv))
       ELSE /\ pc' = CASE s.next = "ret" -> "ret" [] s.next = "await" -> "await_rd"
                       [] OTHER -> "spin"
            /\ hist' = [hist EXCEPT !.got = Got(Reading, s.rv),
                                    !.readSince = @ \/ s.next = "await"]
            /\ UNCHANGED err

ReadResume ==
    /\ pc = "await_rd" /\ res.st \in {"ok", "err"}
    /\ ReadResumed(readResume(Reading, buf, rd, resp, res), soRead(conn, sock))
    /\ UNCHANGED <<sid, pos, req, ctx, phase, out>>

\* WriteChunk without the test of data.length before soWrite
WriteChunk_always(data, w) ==
    /\ (Len(data) > 0 /\ resp.body # "sheep") => hist.chunks < MaxChunks
    /\ resp' = [resp EXCEPT !.last = (Len(rv) = 0)]
    /\ pc' = "await_w" /\ res' = w.res /\ out' = w.out
    /\ hist' = [hist EXCEPT !.chunks = @ + 1]

\* read() has returned rv to writeHTTPResp's loop: data is what it writes
WriteChunk(data, w) ==
    /\ (Len(data) > 0 /\ resp.body # "sheep") => hist.chunks < MaxChunks
    /\ resp' = [resp EXCEPT !.last = (Len(rv) = 0)]
    /\ IF Len(data) > 0
       THEN /\ pc' = "await_w" /\ res' = w.res /\ out' = w.out
            /\ hist' = [hist EXCEPT !.chunks = @ + 1]
       ELSE pc' = "written" /\ UNCHANGED <<res, out, hist>>

WritePayload(data) == WriteChunk(data, soWrite(conn, out, data))

\* read() has returned rv: to writeHTTPResp's loop or to serveClient's drain
ReadReturn ==
    /\ pc = "ret"
    /\ IF ctx = "write"
       THEN WritePayload(bodyPayload(resp.length, rv))
       ELSE /\ pc' = IF Len(rv) > 0 THEN "read" ELSE "loop"
            /\ hist' = IF Len(rv) > 0 THEN hist
                       ELSE [hist EXCEPT
                              !.pipelined = IF HasHeader(buf) THEN Len(hist.heads)
                                            ELSE -1,
                              !.readSince = FALSE]
            /\ UNCHANGED <<resp, res, out>>
    /\ UNCHANGED <<sid, pos, sock, conn, buf, req, rd, rv, ctx, err, phase>>

\* Written without serveClient's drain loop
Written_noDrain ==
    /\ pc = "written"
    /\ pc' = IF phase = "error" \/ req.version = tVer10 THEN "finally" ELSE "loop"
    /\ UNCHANGED <<sid, pos, sock, conn, buf, res, req, rd, resp, rv, ctx, err,
                   phase, out, hist>>

\* writeHTTPResp has returned: to newConn's finally from the error response,
\* else serveClient's test of the version, and its drain loop
Written ==
    /\ pc = "written"
    /\ IF phase = "error" \/ req.version = tVer10
       THEN pc' = "finally" /\ UNCHANGED ctx
       ELSE pc' = "read" /\ ctx' = "drain"
    /\ UNCHANGED <<sid, pos, sock, conn, buf, res, req, rd, resp, rv, err, phase,
                   out, hist>>

\* newConn's catch: the error response to an HTTPError
CatchWrite(w) ==
    /\ phase' = "error"
    /\ resp' = w.resp /\ res' = w.res /\ out' = w.out
    /\ pc' = IF w.ok THEN "await_w" ELSE "finally"
    /\ ctx' = "write"
    /\ hist' = [hist EXCEPT
           !.attempts = Append(@, err.code),
           !.heads = IF w.out # out THEN Append(@, err.code) ELSE @,
           !.chunks = 0]

\* Catch answering whatever was thrown with a 400
Catch_any ==
    /\ pc = "catch"
    /\ CatchWrite(writeStart(errorResp(HTTPError(400, err.msg)), conn, out))
    /\ UNCHANGED <<sid, pos, sock, conn, buf, req, rd, rv, err>>

Catch ==
    /\ pc = "catch"
    /\ IF err.kind = "HTTPError"
       THEN CatchWrite(writeStart(errorResp(err), conn, out))
       ELSE /\ pc' = "finally"
            /\ UNCHANGED <<phase, resp, res, out, ctx, hist>>
    /\ UNCHANGED <<sid, pos, sock, conn, buf, req, rd, rv, err>>

\* newConn's finally: socket.destroy()
Finally ==
    /\ pc = "finally"
    /\ pc' = "done"
    /\ sock' = [sock EXCEPT !.destroyed = TRUE]
    /\ UNCHANGED <<sid, pos, conn, buf, res, req, rd, resp, rv, ctx, err, phase,
                   out, hist>>

----------------------------------------------------------------------------

\* the history of a run: raw is the header block of the request being served,
\* bodyStart the offset in the stream of the byte after it, got the bytes its
\* body reader has returned, nReq the number of requests parsed; pipelined is
\* the number of responses begun when a drained request left a complete
\* header in the buffer (-1 otherwise) and readSince whether soRead has been
\* called since; attempts are the codes of the error responses attempted,
\* heads the codes of the response headers handed to socket.write, chunks the
\* number of body payloads written for the response; failOut is Len(out) when
\* serveClient threw; lastEmpty and nullReader record the two assertions
NoHist ==
    [raw |-> <<>>, bodyStart |-> 0, got |-> <<>>, nReq |-> 0,
     pipelined |-> -1, readSince |-> FALSE, lastEmpty |-> TRUE,
     attempts |-> <<>>, heads |-> <<>>, chunks |-> 0, failOut |-> -1,
     nullReader |-> FALSE]

\* a connection is accepted (paused: pauseOnConnect), soInit has wrapped the
\* socket and serveClient starts with an empty buffer
Init ==
    /\ sid \in 1..Len(Streams)
    /\ pos = 0
    /\ sock = [paused |-> TRUE, destroyed |-> FALSE, peer |-> "open"]
    /\ conn = [err |-> FALSE, ended |-> FALSE, reader |-> FALSE]
    /\ buf = EmptyBuf
    /\ pc = "loop"
    /\ res = Idle
    /\ req = NoReq
    /\ rd = NoReader
    /\ resp = NoResp
    /\ rv = <<>>
    /\ ctx = "write"
    /\ err = NoErr
    /\ phase = "serve"
    /\ out = <<>>
    /\ hist = NoHist

Next ==
    \/ OnData \/ OnEnd \/ OnError \/ WriteDone \/ WriteFail \/ TimerFire
    \/ ServeLoop \/ ServeRead \/ ServeRequest \/ WriteResume
    \/ ReadCall \/ ReadResume \/ ReadReturn \/ Written \/ Catch \/ Finally

Spec == Init /\ [][Next]_vars

\* every step that can be taken is taken in the end: the task runs, and the
\* peer sends what it has to send, ends or fails
Task ==
    \/ ServeLoop \/ ServeRead \/ ServeRequest \/ WriteResume
    \/ ReadCall \/ ReadResume \/ ReadReturn \/ Written \/ Catch \/ Finally

Peer == OnData \/ OnEnd \/ OnError

Settle == WriteDone \/ WriteFail \/ TimerFire

\* writeHTTPResp is at a payload that the model does not let it write
Capped ==
    /\ ctx = "write" /\ resp.body # "sheep" /\ hist.chunks >= MaxChunks
    /\ Len(bodyPayload(resp.length, rv)) > 0

\* ENABLED <<Task>>_vars: the task is not suspended on a pending promise
Runnable ==
    \/ pc \in {"loop", "request", "read", "written", "catch", "finally"}
    \/ pc \in {"await_hdr", "await_w", "await_rd"} /\ res.st \in {"ok", "err"}
    \/ pc = "ret" /\ ~Capped

\* where the task is: one action of Task for each
Places ==
    {"loop", "request", "read", "written", "catch", "finally", "await_hdr",
     "await_w", "await_rd", "ret"}

\* The event loop runs the task whenever it can run, the peer sends what it
\* has to send, ends or fails, and writes and timers settle. The action of
\* Task at a place can be taken wherever the task is runnable there, its
\* step leaves the place or suspends the task, and nothing else moves pc:
\* its weak fairness is that the task is not runnable at the place for ever
FairSpec ==
    /\ Spec
    /\ WF_vars(Peer) /\ WF_vars(Settle)
    /\ \A p \in Places : []<>(~(pc = p /\ Runnable))

\* The chunked reader by itself: readerFromReq has built it (line 416) over a
\* buffer that holds what arrived of the body with the header block, and
\* serveClient's drain loop calls its read() until it returns the empty chunk
ChunkInit ==
    /\ sid \in (Len(Streams) + 1)..(Len(Streams) + Len(Bodies))
    /\ pos \in {0} \cup Feed[sid].cuts
    /\ buf = IF pos = 0 THEN EmptyBuf ELSE bufPush(EmptyBuf, SubSeq(Stream, 1, pos))
    /\ sock = [paused |-> TRUE, destroyed |-> FALSE, peer |-> "open"]
    /\ conn = [err |-> FALSE, ended |-> FALSE, reader |-> FALSE]
    /\ pc = "read"
    /\ ctx = "drain"
    /\ rd = readerFromGenerator
    /\ res = Idle
    /\ req = NoReq
    /\ resp = NoResp
    /\ rv = <<>>
    /\ err = NoErr
    /\ phase = "serve"
    /\ out = <<>>
    /\ hist = [NoHist EXCEPT !.nReq = 1]

ChunkNext ==
    \/ OnData \/ OnEnd \/ OnError
    \/ ReadCall \/ ReadResume \/ ReadReturn \/ Catch \/ Finally

ChunkSpec == ChunkInit /\ [][ChunkNext]_vars

----------------------------------------------------------------------------
\* What a header block says, read off its bytes as HTTP writes them (the
\* request line ends at the first CRLF, a header line stands between CRLFs)

RawLine(raw) == subarray(raw, 0, indexOf(raw, CRLF))

RawMethod(raw) == subarray(raw, 0, indexOf(raw, <<SP>>))

Names10(raw) ==
    /\ indexOf(raw, CRLF) >= 9
    /\ subarray(RawLine(raw), -9, Len(RawLine(raw))) = <<SP>> \o vHTTP10

Carries(raw, line) == indexOf(raw, CRLF \o line \o CRLF) >= 0

\* the Content-Length of the block, where it is one decimal digit (-1 where
\* the block has no such line)
RawLength(raw) ==
    IF \E d \in 0..9 : Carries(raw, hLength(<<Digits[d + 1]>>))
    THEN CHOOSE d \in 0..9 : Carries(raw, hLength(<<Digits[d + 1]>>))
    ELSE -1

\* the request of the block has been handed to readerFromReq
Constructed == hist.nReq > 0 /\ pc # "request"

\* the task is back in serveClient's loop after a response: draining the
\* request's body, framing or awaiting the next header
BackInLoop ==
    \/ pc \in {"loop", "await_hdr"}
    \/ ctx = "drain" /\ pc \in {"read", "await_rd", "ret"}

----------------------------------------------------------------------------
\* C1: once the response to a request whose request line names HTTP/1.0 has
\* been written, serveClient leaves its loop: the task never drains the
\* request, never frames and never awaits another header on the connection.
C1_Http10Closes == Names10(hist.raw) => ~BackInLoop

\* C2: when draining a request leaves a complete header block in the buffer,
\* the next request is answered (its response, or its error response, is
\* handed to the socket) before soRead is called again.
C2_PipelinedNoRead ==
    (hist.pipelined >= 0 /\ hist.readSince) => Len(hist.heads) > hist.pipelined

\* a second request that sat in the buffer has its response header handed to
\* the socket, and soRead has not been called since the first was drained
C2_Witness ==
    /\ hist.pipelined = 1 /\ hist.heads = <<200, 200>> /\ ~hist.readSince
    /\ pc = "await_w" /\ hist.nReq = 2

\* C3: when soRead resolves with no bytes while serveClient awaits a header,
\* an empty buffer ends the connection with no error and no response, and a
\* buffer holding part of a header block raises the 400 'Unexpected EOF.',
\* for which exactly one error response is attempted.
C3_EofAwaitingHeader ==
    /\ [][(pc = "await_hdr" /\ res = Resolved(<<>>)) =>
            IF buf.length = 0
            THEN pc' = "finally" /\ err' = NoErr /\ out' = out /\ hist' = hist
            ELSE pc' = "catch" /\ err' = HTTPError(400, msgExpectedEOF)]_vars
    /\ []((err = NoErr /\ pc \in {"finally", "done"} /\ conn.ended)
            => hist.attempts = <<>> /\ \A i \in DOMAIN hist.heads : hist.heads[i] = 200)
    /\ [](err = HTTPError(400, msgExpectedEOF) =>
            /\ pc = "catch" => hist.attempts = <<>>
            /\ pc # "catch" => hist.attempts = <<400>>)

\* the peer closed after half a header block and the 400 is being written
C3_Witness ==
    /\ err = HTTPError(400, msgExpectedEOF) /\ buf.length > 0 /\ conn.ended
    /\ pc = "await_w" /\ hist.heads = <<400>>

\* C4: a framing attempt on a buffer of at least kMaxHeaderLen bytes with no
\* CRLF CRLF in it throws the 413, and calls soRead no more: no read is
\* pending and none is ever awaited with such a buffer.
C4_HeaderTooLarge ==
    /\ [][(pc = "loop" /\ buf.length >= kMaxHeaderLen /\ ~HasHeader(buf)) =>
            /\ pc' = "catch" /\ err' = HTTPError(413, msgTooLarge)
            /\ conn' = conn /\ sock' = sock /\ res' = res]_vars
    /\ []((buf.length >= kMaxHeaderLen /\ ~HasHeader(buf)) =>
            /\ pc # "await_hdr" /\ ~conn.reader
            /\ pc # "loop" => err = HTTPError(413, msgTooLarge))

\* kMaxHeaderLen bytes without a terminator are buffered and the 413 is thrown
C4_Witness ==
    /\ buf.length >= kMaxHeaderLen /\ ~HasHeader(buf)
    /\ pc = "catch" /\ err = HTTPError(413, msgTooLarge)

\* C5: after serveClient throws an HTTPError, exactly one error response with
\* its code is attempted, a failure of that write starts no second attempt,
\* the task never returns to the loop, and it ends with the socket destroyed.
C5_HttpErrorAnswered ==
    err.kind = "HTTPError" =>
        /\ ~BackInLoop /\ pc # "request" /\ pc # "spin"
        /\ pc = "catch" => hist.attempts = <<>> /\ phase = "serve"
        /\ pc # "catch" => hist.attempts = <<err.code>> /\ phase = "error"
        /\ pc = "done" => sock.destroyed
        /\ Len(hist.heads) <= hist.nReq + 1

\* the write of an error response failed, and the connection was destroyed
\* with that one attempt made
C5_Witness ==
    /\ err.kind = "HTTPError" /\ pc = "done" /\ sock.destroyed
    /\ hist.attempts = <<err.code>> /\ phase = "error" /\ sock.peer = "error"

\* C6: after serveClient throws an error without a status code (a transport
\* error, a failed write, an internal Error), no error response is attempted
\* and nothing more is handed to the socket; the task goes to the finally
\* and ends with the socket destroyed.
C6_PlainErrorSilent ==
    err.kind = "Error" =>
        /\ pc \in {"catch", "finally", "done"} /\ phase = "serve"
        /\ hist.attempts = <<>> /\ Len(out) = hist.failOut
        /\ pc = "done" => sock.destroyed

\* a write of a response failed: the connection is destroyed with only what
\* had been handed to the socket before
C6_Witness ==
    /\ err = PlainError(msgSocket) /\ pc = "done" /\ sock.destroyed
    /\ hist.heads = <<200>> /\ Len(out) = 1

\* C7 as stated: the error of an end of input in the middle of a
\* fixed-length body carries a status code, and one error response is
\* attempted for it.
C7_EofBodyHasStatus ==
    err.msg = msgEOFBody =>
        /\ err.kind = "HTTPError"
        /\ pc \in {"finally", "done"} => Len(hist.attempts) = 1

\* C7 amended: when soRead resolves with no bytes for the fixed-length reader
\* while bytes remain, read() throws the plain Error 'Unexpected EOF from
\* HTTP body', which carries no status code: no error response is attempted,
\* nothing more is handed to the socket and the connection is destroyed.
C7_EofBodyPlain ==
    /\ [][(pc = "await_rd" /\ Reading = "req" /\ rd.kind = "length"
            /\ res = Resolved(<<>>)) =>
            /\ rd.remain > 0
            /\ pc' = "catch" /\ err' = PlainError(msgEOFBody)]_vars
    /\ [](err.msg = msgEOFBody =>
            /\ err.kind = "Error" /\ err.code = 0
            /\ pc \in {"catch", "finally", "done"}
            /\ hist.attempts = <<>> /\ Len(out) = hist.failOut
            /\ pc = "done" => sock.destroyed)

\* the peer closed after part of a body of 5 bytes, and the connection is
\* destroyed with nothing but the response's header and what was echoed
C7_Witness ==
    /\ err = PlainError(msgEOFBody) /\ pc = "done" /\ sock.destroyed
    /\ rd.remain > 0 /\ rd.remain < rd.length /\ hist.heads = <<200>>

\* C8: a GET or HEAD request whose header block carries a Content-Length
\* greater than 0 makes readerFromReq throw the 400 'HTTP body not allowed.',
\* and no 200 response is begun for it.
C8_NoBodyForGetHead ==
    (Constructed /\ RawMethod(hist.raw) \in {mGET, mHEAD} /\ RawLength(hist.raw) > 0)
        => /\ err = HTTPError(400, msgNotAllowed)
           /\ Cardinality({i \in DOMAIN hist.heads : hist.heads[i] = 200}) < hist.nReq

\* a HEAD with Content-Length: 5 is being answered with the 400
C8_Witness ==
    /\ RawMethod(hist.raw) = mHEAD /\ RawLength(hist.raw) = 5
    /\ pc = "await_w" /\ hist.heads = <<400>> /\ err.msg = msgNotAllowed

\* C9: a request whose header block carries Transfer-Encoding: chunked and
\* no Content-Length is taken as chunked: readerFromReq throws the 400 for a
\* GET or HEAD, and builds the chunked reader (of length -1) otherwise.
C9_ChunkedTreated ==
    (Constructed /\ Carries(hist.raw, hTransferChunked) /\ RawLength(hist.raw) < 0)
        => IF RawMethod(hist.raw) \in {mGET, mHEAD}
           THEN err = HTTPError(400, msgNotAllowed)
           ELSE rd.kind = "gen" /\ rd.length = -1

\* C10: for a request other than GET and HEAD with Content-Length N, what
\* read() has returned is at every moment the first N - remain bytes after
\* the header block's terminator, never more than N; and read() returns an
\* empty chunk only when nothing remains, all N bytes having been returned.
C10_FixedLengthBody ==
    (Constructed /\ RawMethod(hist.raw) \notin {mGET, mHEAD}
     /\ RawLength(hist.raw) >= 0 /\ rd # NoReader)
        => /\ rd.kind = "length" /\ rd.length = RawLength(hist.raw)
           /\ rd.remain \in 0..rd.length
           /\ hist.got = SubSeq(Stream, hist.bodyStart + 1,
                                 hist.bodyStart + rd.length - rd.remain)
           /\ (pc = "ret" /\ Reading = "req" /\ rv = <<>>) =>
                  rd.remain = 0 /\ Len(hist.got) = rd.length

\* a body of 5 bytes has been echoed in two chunks or more, and read() now
\* returns the empty chunk
C10_Witness ==
    /\ RawMethod(hist.raw) = mPOST /\ RawLength(hist.raw) = 5
    /\ pc = "ret" /\ ctx = "write" /\ Reading = "req" /\ rv = <<>>
    /\ hist.got = tHello /\ hist.chunks >= 2

----------------------------------------------------------------------------
(* The echo server: cutMessage, serveClient and newConn of its own        *)

tBye == <<"B", "y", "e", ".", LF>>

tEcho == <<"E", "c", "h", "o", ":", SP>>

\* echoCutAt leaving the delimiter in the buffer
echoCutAt_short(b, idx) ==
    IF idx < 0 THEN [null |-> TRUE, msg |-> <<>>, buf |-> b]
    ELSE [null |-> FALSE, msg |-> subarray(b.data, 0, idx + 1),
          buf |-> bufPop(b, idx)]

\* cutMessage of the echo server: [null, msg, buf]
echoCutAt(b, idx) ==
    IF idx < 0 THEN [null |-> TRUE, msg |-> <<>>, buf |-> b]
    ELSE [null |-> FALSE, msg |-> subarray(b.data, 0, idx + 1),
          buf |-> bufPop(b, idx + 1)]

echoCutMessage(b) == echoCutAt(b, indexOf(Window(b), <<LF>>))

\* serveClient of the echo server at the top of its loop: it awaits a read,
\* or the write of its reply to the message m.msg
EchoWrite(m, w, next) ==
    /\ pc' = next
    /\ buf' = m.buf /\ res' = w.res /\ out' = w.out
    /\ hist' = [hist EXCEPT !.msgs = Append(@, m.msg)]
    /\ UNCHANGED <<conn, sock>>

EchoCut(m, r) ==
    IF m.null
    THEN /\ pc' = "e_await"
         /\ conn' = r.conn /\ sock' = r.sock /\ res' = r.res
         /\ UNCHANGED <<buf, out, hist>>
    ELSE IF m.msg = tQuit
    THEN EchoWrite(m, soWrite(conn, out, tBye), "e_bye")
    ELSE EchoWrite(m, soWrite(conn, out, tEcho \o m.msg), "e_w")

EchoLoop ==
    /\ pc = "e_loop"
    /\ EchoCut(echoCutMessage(buf), soRead(conn, sock))
    /\ UNCHANGED <<sid, pos, req, rd, resp, rv, ctx, err, phase>>

\* serveClient of the echo server after its await of soRead
EchoRead ==
    /\ pc = "e_await" /\ res.st \in {"ok", "err"}
    /\ res' = Idle
    /\ IF res.st = "err"
       THEN pc' = "e_finally" /\ err' = PlainError(msgSocket) /\ UNCHANGED buf
       ELSE /\ buf' = bufPush(buf, res.val)
            /\ pc' = IF Len(res.val) = 0 THEN "e_finally" ELSE "e_loop"
            /\ UNCHANGED err
    /\ UNCHANGED <<sid, pos, sock, conn, req, rd, resp, rv, ctx, phase, out, hist>>

\* serveClient of the echo server after its await of soWrite: on to the next
\* message, or, after 'Bye.', socket.destroy() and return
EchoWritten ==
    /\ pc \in {"e_w", "e_bye"} /\ res.st \in {"ok", "err"}
    /\ res' = Idle
    /\ pc' = IF res.st = "ok" /\ pc = "e_w" THEN "e_loop" ELSE "e_finally"
    /\ err' = IF res.st = "err" THEN PlainError(msgSocket) ELSE err
    /\ sock' = IF res.st = "ok" /\ pc = "e_bye"
               THEN [sock EXCEPT !.destroyed = TRUE] ELSE sock
    /\ UNCHANGED <<sid, pos, conn, buf, req, rd, resp, rv, ctx, phase, out, hist>>

\* newConn of the echo server: its finally
EchoFinally ==
    /\ pc = "e_finally"
    /\ pc' = "done"
    /\ sock' = [sock EXCEPT !.destroyed = TRUE]
    /\ UNCHANGED <<sid, pos, conn, buf, res, req, rd, resp, rv, ctx, err, phase,
                   out, hist>>

EchoInit ==
    /\ sid \in (Len(Streams) + Len(Bodies) + 1)..Len(Feed)
    /\ pos = 0
    /\ sock = [paused |-> TRUE, destroyed |-> FALSE, peer |-> "open"]
    /\ conn = [err |-> FALSE, ended |-> FALSE, reader |-> FALSE]
    /\ buf = EmptyBuf
    /\ pc = "e_loop"
    /\ res = Idle /\ req = NoReq /\ rd = NoReader /\ resp = NoResp
    /\ rv = <<>> /\ ctx = "write" /\ err = NoErr /\ phase = "serve"
    /\ out = <<>>
    /\ hist = [msgs |-> <<>>, nullReader |-> FALSE]

EchoNext ==
    \/ OnData \/ OnEnd \/ OnError \/ WriteDone \/ WriteFail
    \/ EchoLoop \/ EchoRead \/ EchoWritten \/ EchoFinally

EchoSpec == EchoInit /\ [][EchoNext]_vars

\* the HTTP server and the echo server, each on the streams sent to it
LoopsInit == Init \/ EchoInit

LoopsNext == Next \/ EchoNext

LoopsSpec == LoopsInit /\ [][LoopsNext]_vars

----------------------------------------------------------------------------
(* The socket wrapper by itself: a caller that awaits soRead and soWrite   *)

\* the most calls of soRead and soWrite by the caller
MaxCalls == 4

\* the history of the caller: eof and failed tell that a soRead has returned
\* the empty chunk and that one has failed, first is the state of a read that
\* was pending when soRead was called again, at the offset of the stream when
\* soRead was last called, calls the number of calls made
ConnInit ==
    /\ sid = Len(Streams) + Len(Bodies) + 1
    /\ pos = 0
    /\ sock = [paused |-> TRUE, destroyed |-> FALSE, peer |-> "open"]
    /\ conn = [err |-> FALSE, ended |-> FALSE, reader |-> FALSE]
    /\ buf = EmptyBuf
    /\ pc = "c_idle"
    /\ res = Idle /\ req = NoReq /\ rd = NoReader /\ resp = NoResp
    /\ rv = <<>> /\ ctx = "write" /\ err = NoErr /\ phase = "serve"
    /\ out = <<>>
    /\ hist = [eof |-> FALSE, failed |-> FALSE, first |-> "none", at |-> 0,
               calls |-> 0, nullReader |-> FALSE]

ConnCalled(r, next) ==
    /\ hist.calls < MaxCalls
    /\ conn' = r.conn /\ sock' = r.sock /\ res' = r.res
    /\ pc' = next

\* the caller calls soRead and awaits it
ConnRead ==
    /\ pc = "c_idle"
    /\ ConnCalled(soRead(conn, sock), "c_read")
    /\ hist' = [hist EXCEPT !.calls = @ + 1, !.at = pos]
    /\ UNCHANGED <<sid, pos, buf, req, rd, resp, rv, ctx, err, phase, out>>

\* the caller calls soRead while the read it has called is pending: the
\* assertion of line 121 logs, and conn.reader is assigned the callbacks of
\* the new promise, nothing holding those of the first one any more
ConnAgain ==
    /\ pc = "c_read" /\ res = Pending("read")
    /\ ConnCalled(soRead(conn, sock), "c_again")
    /\ hist' = [hist EXCEPT !.calls = @ + 1, !.first = "pending", !.at = pos]
    /\ UNCHANGED <<sid, pos, buf, req, rd, resp, rv, ctx, err, phase, out>>

\* the caller calls soWrite and awaits it
ConnWritten(w) ==
    /\ hist.calls < MaxCalls
    /\ res' = w.res /\ out' = w.out
    /\ pc' = "c_write"

ConnWrite ==
    /\ pc = "c_idle"
    /\ ConnWritten(soWrite(conn, out, tHello))
    /\ hist' = [hist EXCEPT !.calls = @ + 1]
    /\ UNCHANGED <<sid, pos, sock, conn, buf, req, rd, resp, rv, ctx, err, phase>>

\* the promise the caller awaits has settled: the caller goes on
ConnResume ==
    /\ pc \in {"c_read", "c_again", "c_write"} /\ res.st \in {"ok", "err"}
    /\ pc' = "c_idle"
    /\ res' = Idle
    /\ hist' = [hist EXCEPT
                  !.eof = @ \/ (pc # "c_write" /\ res = Resolved(<<>>)),
                  !.failed = @ \/ (pc # "c_write" /\ res = Rejected)]
    /\ UNCHANGED <<sid, pos, sock, conn, buf, req, rd, resp, rv, ctx, err, phase, out>>

ConnNext ==
    \/ OnData \/ OnEnd \/ OnError \/ WriteDone \/ WriteFail
    \/ ConnRead \/ ConnWrite \/ ConnResume

ConnSpec == ConnInit /\ [][ConnNext]_vars

\* the same, with a caller that may call soRead while a read is pending
MisuseNext == ConnNext \/ ConnAgain

MisuseSpec == ConnInit /\ [][MisuseNext]_vars

\* The dynamic buffer by itself: bufPush of PushLens bytes and bufPop(n) with
\* 0 <= n <= buf.length (n near 0, near the half and near the length),
\* MaxOps calls in all. The history holds all the
\* bytes pushed, the number popped, the capacity before the last call, and
\* which call it was
MaxOps == 4

PushLens == {0, 1, 5, 33, 70}

PopLens(len) ==
    {n \in 0..len : n <= 2 \/ n >= len - 1 \/ n \in {len \div 2, (len \div 2) + 1}}

PushData(k, n) == [i \in 1..n |-> Digits[((k + i) % 16) + 1]]

Rest == <<sid, pos, sock, conn, pc, res, req, rd, resp, rv, ctx, err, phase, out>>

BufInit ==
    /\ sid = 1 /\ pos = 0
    /\ sock = [paused |-> TRUE, destroyed |-> FALSE, peer |-> "open"]
    /\ conn = [err |-> FALSE, ended |-> FALSE, reader |-> FALSE]
    /\ buf = EmptyBuf
    /\ pc = "buf"
    /\ res = Idle /\ req = NoReq /\ rd = NoReader /\ resp = NoResp
    /\ rv = <<>> /\ ctx = "write" /\ err = NoErr /\ phase = "serve"
    /\ out = <<>>
    /\ hist = [pushed |-> <<>>, popped |-> 0, cap0 |-> 0, last |-> "none", ops |-> 0]

BufPush ==
    /\ pc = "buf" /\ hist.ops < MaxOps
    /\ \E n \in PushLens :
        /\ buf' = bufPush(buf, PushData(Len(hist.pushed), n))
        /\ hist' = [hist EXCEPT !.pushed = @ \o PushData(Len(hist.pushed), n),
                                !.cap0 = Len(buf.data), !.last = "push",
                                !.ops = @ + 1]
    /\ UNCHANGED Rest

BufPop ==
    /\ pc = "buf" /\ hist.ops < MaxOps
    /\ \E n \in PopLens(buf.length) :
        /\ buf' = bufPop(buf, n)
        /\ hist' = [hist EXCEPT !.popped = @ + n, !.cap0 = Len(buf.data),
                                !.last = "pop", !.ops = @ + 1]
    /\ UNCHANGED Rest

BufNext == BufPush \/ BufPop

BufSpec == BufInit /\ [][BufNext]_vars

----------------------------------------------------------------------------
\* the body the chunked reader is run on, and what its segments carry
Payload == Bodies[sid - Len(Streams)].payload

IsPrefix(a, b) == Len(a) <= Len(b) /\ a = SubSeq(b, 1, Len(a))

\* C11: on a well-formed chunked body, however it is cut into deliveries,
\* the chunked reader returns non-empty chunks that make up the segments'
\* payloads and then the empty chunk; where no size line is buffered it
\* reads from the connection instead of looping, and it never pops more
\* than the buffer holds.
C11_ChunkedDecodes ==
    /\ pc # "spin"
    /\ buf.length >= 0
    /\ IsPrefix(hist.got, Payload)
    /\ (pc = "ret" /\ rv = <<>>) => hist.got = Payload
    /\ err.msg # msgOutOfRange

\* C12: serveClient's drain loop ends: from every call of read() in it, the
\* loop is left in the end, by the empty chunk or by an error.
C12_DrainTerminates ==
    (pc = "read" /\ ctx = "drain") ~> (pc \in {"loop", "catch"})

\* C13: after any bufPush and bufPop(n) calls with n <= length, the window
\* data[0, length) is all that was pushed, in order, less its first
\* (total popped) bytes.
C13_WindowIsTail ==
    /\ buf.length = Len(hist.pushed) - hist.popped
    /\ Window(buf) = SubSeq(hist.pushed, hist.popped + 1, Len(hist.pushed))

\* pushes that grew the store and pops on both sides of them have left a
\* window that is a proper tail of what was pushed
C13_Witness ==
    /\ hist.popped > 5 /\ buf.length > 32 /\ hist.last = "pop"
    /\ Len(buf.data) >= 64

\* b * 2^k is the least of b, 2b, 4b, ... that is >= need
RECURSIVE LeastDoubling(_, _)
LeastDoubling(b, need) == IF b >= need THEN b ELSE LeastDoubling(2 * b, need)

\* C14: the capacity never decreases and bufPop leaves it as it is; after a
\* bufPush the capacity is at least the length, unchanged when the bytes
\* fitted, and else max(old capacity, 32) doubled the least number of times
\* that makes room.
C14_Capacity ==
    /\ Len(buf.data) >= hist.cap0
    /\ hist.last = "pop" => Len(buf.data) = hist.cap0
    /\ hist.last = "push" =>
          /\ Len(buf.data) >= buf.length
          /\ Len(buf.data) =
                IF hist.cap0 >= buf.length THEN hist.cap0
                ELSE LeastDoubling(IF hist.cap0 > 32 THEN hist.cap0 ELSE 32, buf.length)

\* a push of 70 bytes on a store of 32 has doubled it twice
C14_Witness ==
    /\ hist.last = "push" /\ hist.cap0 = 32 /\ Len(buf.data) = 128
    /\ buf.length > 64

\* the lines of a byte string: each the bytes after the LF before it, up to
\* and with its own LF
LFs(s) == {i \in 1..Len(s) : s[i] = LF}

LineEnd(s, k) ==
    IF k = 0 THEN 0
    ELSE CHOOSE i \in LFs(s) : Cardinality({j \in LFs(s) : j <= i}) = k

LinesOf(s) ==
    [k \in 1..Cardinality(LFs(s)) |-> SubSeq(s, LineEnd(s, k - 1) + 1, LineEnd(s, k))]

\* C15: the messages the echo server has cut are the first lines of the
\* stream, each up to and with one LF, none after a 'quit'; and whenever it
\* waits for more bytes it has cut every complete line of what was
\* delivered: the sequence depends on the bytes only, not on how they were
\* cut into deliveries.
C15_EchoFraming ==
    /\ IsPrefix(hist.msgs, LinesOf(Stream))
    /\ \A k \in 1..(Len(hist.msgs) - 1) : hist.msgs[k] # tQuit
    /\ (pc = "e_await" /\ res.st = "pending")
          => hist.msgs = LinesOf(SubSeq(Stream, 1, pos))

\* three lines, one of them empty, have been cut from deliveries that did
\* not end at the line ends, and the bytes after the last LF are kept
C15_Witness ==
    /\ Len(hist.msgs) = 3 /\ hist.msgs[2] = <<LF>> /\ Window(buf) = <<"x">>
    /\ pc = "e_await" /\ res.st = "pending"

\* where the header blocks of a byte string end when it is framed as one
\* chunk: block k ends with the first CR LF CR LF after block k - 1
Least(S) == IF S = {} THEN -1 ELSE CHOOSE i \in S : \A j \in S : i <= j

NextEnd(s, from) ==
    Least({i \in (from + 4)..Len(s) : SubSeq(s, i - 3, i) = <<CR, LF, CR, LF>>})

RECURSIVE EndOf(_, _)
EndOf(s, k) ==
    IF k = 0 THEN 0
    ELSE IF EndOf(s, k - 1) < 0 THEN -1
    ELSE NextEnd(s, EndOf(s, k - 1))

\* the stream is of requests without a body
BodyLess == indexOf(Stream, kContentLength) < 0 /\ indexOf(Stream, mPOST) < 0

\* C16: on a stream of requests without bodies, the header blocks cut and
\* the framing error raised are those of the stream framed as one chunk:
\* block k is the bytes up to the k-th terminator, and the 413 is raised
\* only where no terminator follows the blocks cut.
C16_HeaderFraming ==
    BodyLess =>
        /\ hist.nReq > 0 =>
              /\ hist.bodyStart = EndOf(Stream, hist.nReq)
              /\ hist.raw = SubSeq(Stream, EndOf(Stream, hist.nReq - 1) + 1,
                                   EndOf(Stream, hist.nReq))
        /\ err = HTTPError(413, msgTooLarge) =>
              NextEnd(Stream, EndOf(Stream, hist.nReq)) < 0

\* C17: the end and the error of a connection are sticky: once a soRead has
\* returned the empty chunk every later soRead returns the empty chunk, and
\* once a soRead has failed every later soRead fails, whatever the events of
\* the socket between the reads and the writes.
C17_StickySignals ==
    (pc = "c_read" /\ res.st \in {"ok", "err"}) =>
        /\ hist.eof => res = Resolved(<<>>)
        /\ hist.failed => res = Rejected

\* C18: the socket delivers only while a read is pending: it is resumed
\* only from the soRead that set conn.reader to the event that settles it, a
\* soRead that returns data returns the one delivery made since it was
\* called, with the socket paused again, and no 'data' event has met a null
\* conn.reader.
C18_Backpressure ==
    /\ (~sock.paused /\ sock.peer = "open") => (conn.reader /\ res = Pending("read"))
    /\ (pc = "c_read" /\ res.st = "ok" /\ Len(res.val) > 0) =>
          /\ res.val = SubSeq(Stream, hist.at + 1, pos)
          /\ sock.paused /\ ~conn.reader
    /\ ~hist.nullReader

\* a second soRead has returned the second delivery
C18_Witness ==
    /\ pc = "c_read" /\ res.st = "ok" /\ Len(res.val) > 0
    /\ hist.at > 0 /\ pos < Len(Stream)

\* C19: a soRead called while a read is pending is rejected, and the read
\* that was pending is settled by the next event of the socket.
C19_SecondReadRejected ==
    hist.first # "none" =>
        /\ pc = "c_again" => res = Rejected
        /\ (pos > hist.at \/ sock.peer # "open") => hist.first # "pending"

\* a step that calls soRead or soWrite: a reader is registered, bytes are
\* handed to socket.write, or a promise of the socket is awaited
Issues ==
    \/ conn'.reader /\ ~conn.reader
    \/ Len(out') > Len(out)
    \/ res'.st = "pending" /\ res'.op \in {"read", "write"} /\ res' # res

\* a read and a write are never pending together
OneOutstanding ==
    /\ conn.reader => res = Pending("read")
    /\ res = Pending("write") => ~conn.reader

\* C20: in the loops of the HTTP server and of the echo server one soRead or
\* soWrite at most is pending, each is called when none is pending (conn.reader
\* is null when soRead is called), and soWrite is never given empty data.
C20_Sequential ==
    [][/\ OneOutstanding'
       /\ Issues => (res.st # "pending" /\ ~conn.reader)
       /\ \A i \in 1..Len(out') : Len(out'[i]) > 0]_vars

\* a write is pending that was called after a read and a write had completed
C20_Witness ==
    /\ res = Pending("write") /\ ~conn.reader
    /\ Len(out) >= 2 /\ pos > 0

\* the decimal digits of k
RECURSIVE Dec(_)
Dec(k) == IF k < 10 THEN <<Digits[k + 1]>> ELSE Dec(k \div 10) \o <<Digits[(k % 10) + 1]>>

\* a chunk of fewer than 16 bytes in chunked framing, and the last chunk
Framed(d) == <<Digits[Len(d) + 1]>> \o CRLF \o d \o CRLF

tLastChunk == <<"0">> \o CRLF \o CRLF

\* the writes after the header of a response in chunked framing
Framing == [i \in 1..(Len(out) - 1) |-> out[i + 1]]

\* C21 as stated: in chunked framing nothing is written for the empty chunk
\* that ends the body, so the last-chunk marker is never written.
C21_NoLastChunk ==
    resp.length < 0 => \A i \in 1..Len(Framing) : Framing[i] # tLastChunk

\* C21, amended: in chunked framing every chunk of the body is written as
\* its size in hex, CR LF, its bytes, CR LF, the empty chunk that ends the
\* body too: the response ends with the last-chunk marker.
C21_ChunkedFraming ==
    resp.length < 0 =>
        /\ \A i \in 1..Len(Framing) :
              Framing[i] = IF i <= 100 THEN Framed(Dec(i - 1) \o <<LF>>) ELSE tLastChunk
        /\ Len(Framing) <= 101
        /\ pc = "written" => Len(Framing) = 101

\* the chunked response is complete
C21_Witness ==
    resp.length < 0 /\ pc = "written" /\ out[Len(out)] = tLastChunk

\* C22: once the peer has ended the stream or the socket has signalled an
\* error, the task of the connection ends and the socket is destroyed (or
\* the run is one the model cuts short, at a body of MaxChunks payloads).
C22_ClosesAfterEnd ==
    (sock.peer \in {"ended", "error"}) ~> ((pc = "done" /\ sock.destroyed) \/ Capped)

\* the whole body was in the buffer when the reader was built, and the
\* reader has not called soRead
Buffered == pos = Len(Stream) /\ ~hist.readSince

\* C23: the chunked reader takes each size line as a hexadecimal number: on a
\* body that is buffered whole it returns, for each segment, as many bytes as
\* the hexadecimal value of its size line, so the segments' payloads and then
\* the empty chunk, and it takes for a size line no byte of a payload.
C23_HexSizeLines ==
    Buffered =>
        /\ pc # "spin" /\ buf.length >= 0
        /\ IsPrefix(hist.got, Payload)
        /\ (pc = "ret" /\ rv = <<>>) => hist.got = Payload

\* C24: after the end of the stream the read-until-close reader returns the
\* valid bytes of the buffer, buf.data[0 .. buf.length), which are the bytes
\* of the stream that followed the header block, and no byte past them.
C24_EofReaderReturnsWindow ==
    (pc = "ret" /\ rd.kind = "eof" /\ Reading = "req" /\ hist.got = rv) =>
        /\ rv = subarray(buf.data, 0, buf.length)
        /\ rv = SubSeq(Stream, hist.bodyStart + 1, pos)

\* a token that ends with CR
EndsWithCR(t) == Len(t) > 0 /\ t[Len(t)] = CR

\* C25: of every header block that is parsed, the last line is empty (the
\* assertion of parseHTTPReq holds), and neither the version nor a header
\* field of the request ends with the CR of its line's terminator.
C25_LinesWithoutTerminator ==
    hist.nReq > 0 =>
        /\ hist.lastEmpty
        /\ ~EndsWithCR(req.version)
        /\ \A i \in 1..Len(req.headers) : ~EndsWithCR(req.headers[i])

\* the lines of a header block, without their CR LF
RECURSIVE CutLines(_)
CutLines(s) ==
    IF indexOf(s, CRLF) < 0 THEN <<>>
    ELSE <<subarray(s, 0, indexOf(s, CRLF))>>
         \o CutLines(subarray(s, indexOf(s, CRLF) + 2, Len(s)))

Has(line, c) == \E i \in 1..Len(line) : line[i] = c

\* fewer than two spaces in the first line, or a later line that is not
\* empty and has no colon
MalformedLines(lines) ==
    \/ Cardinality({i \in 1..Len(lines[1]) : lines[1][i] = SP}) < 2
    \/ \E i \in 2..Len(lines) : lines[i] # <<>> /\ ~Has(lines[i], ":")

Malformed(block) == MalformedLines(CutLines(block))

\* the header block that follows the requests parsed so far, in a stream of
\* requests without bodies (empty when the stream holds no further block)
NextBlock ==
    IF BodyLess /\ NextEnd(Stream, EndOf(Stream, hist.nReq)) > 0
    THEN SubSeq(Stream, EndOf(Stream, hist.nReq) + 1,
                NextEnd(Stream, EndOf(Stream, hist.nReq)))
    ELSE <<>>

\* the first block of the stream is malformed, it has been delivered whole
\* and the task has gone past its parse
FailedParse ==
    /\ hist.nReq = 0
    /\ NextBlock # <<>> /\ Malformed(NextBlock)
    /\ pos >= Len(NextBlock)
    /\ pc \notin {"loop", "await_hdr"}

\* C26: a header block whose first line has fewer than two spaces, or with a
\* later line without a colon, is never made a request: its parse throws the
\* HTTPError 400, the 400 response is the one attempted, and no response
\* header is written for it but that one.
C26_MalformedIs400 ==
    /\ hist.nReq > 0 => ~Malformed(hist.raw)
    /\ FailedParse =>
          /\ err.kind = "HTTPError" /\ err.code = 400
          /\ pc # "catch" => hist.attempts = <<400>>
          /\ \A i \in 1..Len(hist.heads) : hist.heads[i] = 400

\* a line without a colon has been answered 400 and the connection closed
C26_Witness ==
    /\ FailedParse /\ ~Has(CutLines(NextBlock)[2], ":")
    /\ pc = "done" /\ hist.heads = <<400>>

\* the values of the Content-Length lines of a header block: what follows
\* the colon
LengthValues(raw) ==
    {subarray(l, Len(kContentLength) + 1, Len(l)) :
        l \in {CutLines(raw)[i] : i \in
                 {j \in 2..Len(CutLines(raw)) :
                    IsPrefix(kContentLength \o <<":">>, CutLines(raw)[j])}}}

\* a space and then decimal digits, one at least
IsDecimal(v) ==
    /\ Len(v) >= 2 /\ v[1] = SP
    /\ \A i \in 2..Len(v) : \E d \in 0..9 : v[i] = Digits[d + 1]

\* C27: for a request whose Content-Length is not a non-negative decimal
\* number, readerFromReq throws the HTTPError 400: no body reader is built
\* and the request is not answered 200.
C27_BadLengthIs400 ==
    (Constructed /\ \E v \in LengthValues(hist.raw) : ~IsDecimal(v)) =>
        /\ err.kind = "HTTPError" /\ err.code = 400
        /\ Len(hist.heads) < hist.nReq \/ hist.heads[hist.nReq] = 400

\* the first header block of the stream, and the offset of the byte after
\* its body of FirstLength bytes
FirstBlock == SubSeq(Stream, 1, NextEnd(Stream, 0))

FirstLength == RawLength(FirstBlock)

SecondStart == NextEnd(Stream, 0) + FirstLength

\* C28: after a request with Content-Length N has been answered, the bytes
\* of its body that the handler left are drained before the next block is
\* framed: back at the top of the loop the buffer holds what has arrived of
\* the stream past the N bytes, and the second block parsed is the one that
\* starts after them.
C28_DrainKeepsFraming ==
    (NextEnd(Stream, 0) > 0 /\ RawMethod(FirstBlock) = mPOST /\ FirstLength >= 0) =>
        /\ (hist.nReq = 1 /\ pc = "loop") =>
              subarray(buf.data, 0, buf.length) = SubSeq(Stream, SecondStart + 1, pos)
        /\ hist.nReq = 2 =>
              /\ hist.bodyStart - Len(hist.raw) = SecondStart
              /\ hist.raw = SubSeq(Stream, SecondStart + 1, NextEnd(Stream, SecondStart))

\* the request after a body of 5 bytes that the handler did not read is parsed
C28_Witness ==
    /\ RawMethod(FirstBlock) = mPOST /\ FirstLength = 5
    /\ subarray(FirstBlock, 5, 6) = uRoot
    /\ hist.nReq = 2 /\ req.method = mHEAD /\ pc = "request"

\* the last response header handed to the socket (0 when there is none), and
\* the number of bytes handed to it since
LastHead ==
    IF \E i \in 1..Len(out) : IsPrefix(tStatusHTTP, out[i])
    THEN CHOOSE i \in 1..Len(out) :
           /\ IsPrefix(tStatusHTTP, out[i])
           /\ \A j \in (i + 1)..Len(out) : ~IsPrefix(tStatusHTTP, out[j])
    ELSE 0

RECURSIVE BytesFrom(_)
BytesFrom(i) == IF i > Len(out) THEN 0 ELSE Len(out[i]) + BytesFrom(i + 1)

\* C29: after a response header with Content-Length: N, no more than N bytes
\* of body are written, and N bytes are when writeHTTPResp returns.
C29_LengthIsKept ==
    (LastHead > 0 /\ resp.length >= 0
     /\ Carries(out[LastHead], hLength(Dec(resp.length)))) =>
        /\ BytesFrom(LastHead + 1) <= resp.length
        /\ pc = "written" => BytesFrom(LastHead + 1) = resp.length

\* C30: in the HTTP server every bufPop(buf, n) has 0 <= n <= buf.length:
\* the length of the buffer is never negative, never exceeds the capacity,
\* and never exceeds the number of bytes that have arrived.
C30_PopWithinLength ==
    /\ buf.length >= 0
    /\ buf.length <= Len(buf.data)
    /\ buf.length <= pos

\* a body has arrived in pieces and the last pop has emptied the buffer
C30_Witness ==
    /\ hist.nReq = 1 /\ rd.kind = "length" /\ rd.length = 5 /\ rd.remain = 0
    /\ hist.got = tHello /\ buf.length = 0 /\ pos = hist.bodyStart + 5
    /\ hist.readSince

====
